---- MODULE Spec2Model ----
(***************************************************************************)
(* A model of the ELF-to-module transform engine of vita-toolchain         *)
(* (src/vita-elf.c): the relocation loader, the address-space mapper, the  *)
(* stub-symbol linker and the import resolver.                             *)
(*                                                                         *)
(* TLC integers are 32-bit signed, so a uint32_t is kept as the pair       *)
(* <<high halfword, low halfword>>; every operation below is the C         *)
(* operation on uint32_t, modulo 2^32.                                     *)
(***************************************************************************)
EXTENDS Integers, Sequences, FiniteSets, TLC

VARIABLES
    elf,          \* the input file, as libelf presents it
    symtab,       \* ve->symtab: NULL, or <<the symbol array>>
    symtab_ndx,   \* ve->symtab_ndx
    rela_tables,  \* ve->rela_tables, head of the linked sequence first
    segments,     \* ve->segments
    fstubs,       \* ve->fstubs_ndx and the array ve->fstubs[0 .. num_fstubs-1]
    vstubs,       \* ve->vstubs_ndx and the array ve->vstubs[0 .. num_vstubs-1]
    db_files,     \* the import database files named to the run, in order
    imports,      \* main's imports[]: the databases loaded, in load order
    ret,          \* what the last call returned, with its arguments
    scn,          \* vita_elf_load's section cursor (elf_nextscn)
    pc,           \* position of the run
    status,       \* "running", then the exit status of the process
    outfile,      \* the output file: "none", "open" or "written"
    encoded_modinfo, \* main's encoded_modinfo: NULL, or <<the blob>>
    stage,        \* history: how each stage of the run ended
    freed         \* history: what the context owned when the run let go of it,
                  \* and what was released, in order

vars == <<elf, symtab, symtab_ndx, rela_tables, segments, fstubs, vstubs, db_files, imports, ret, scn, pc,
          status, outfile, encoded_modinfo, stage, freed>>

\* A pointer to an object is <<>> when NULL and a one-element tuple naming the
\* object otherwise; a host pointer (void *) is an integer, 0 when NULL.
NULL == <<>>

(***************************************************************************)
(* Bounds of the model.                                                    *)
(***************************************************************************)
MaxRels == 1
MaxSegs == 3
MaxSyms == 2
MaxStubs == 2
MaxDbs == 2

(***************************************************************************)
(* uint32_t                                                                *)
(***************************************************************************)
Half == 2^16

X(hi, lo) == <<hi, lo>>

RECURSIVE And16(_, _)
And16(a, b) ==
    IF a = 0 \/ b = 0 THEN 0
    ELSE (a % 2) * (b % 2) + 2 * And16(a \div 2, b \div 2)

Or16(a, b) == a + b - And16(a, b)

AND(a, b) == <<And16(a[1], b[1]), And16(a[2], b[2])>>

OR(a, b) == <<Or16(a[1], b[1]), Or16(a[2], b[2])>>

ADD(a, b) ==
    LET lo == a[2] + b[2]
    IN  <<(a[1] + b[1] + (lo \div Half)) % Half, lo % Half>>

SUB(a, b) ==
    LET lo == a[2] - b[2] + Half
    IN  <<(a[1] - b[1] - (1 - (lo \div Half)) + Half) % Half, lo % Half>>

SHL(a, n) ==
    IF n >= 16 THEN <<(a[2] * 2^(n - 16)) % Half, 0>>
    ELSE <<((a[1] * 2^n) % Half) + (a[2] \div 2^(16 - n)), (a[2] * 2^n) % Half>>

SHR(a, n) ==
    IF n >= 16 THEN <<0, a[1] \div 2^(n - 16)>>
    ELSE <<a[1] \div 2^n, ((a[1] % 2^n) * 2^(16 - n)) + (a[2] \div 2^n)>>

LT(a, b) == a[1] < b[1] \/ (a[1] = b[1] /\ a[2] < b[2])

GE(a, b) == ~LT(a, b)

ZERO == X(0, 0)

\* C's !x on an int
LNOT(a) == IF a = ZERO THEN X(0, 1) ELSE ZERO

XOR(a, b) == SUB(OR(a, b), AND(a, b))

(***************************************************************************)
(* Relocation decoding                                                     *)
(***************************************************************************)
THUMB_SHUFFLE(x) == OR(SHR(AND(x, X(\hFFFF, 0)), 16), SHL(AND(x, X(0, \hFFFF)), 16))

\* decode_thm_call without the halfword swap
decode_thm_call_unshuffled(data0, addr) ==
    LET data  == data0
        upper == SHR(data, 16)
        lower == AND(data, X(0, \hFFFF))
        sign  == AND(SHR(upper, 10), X(0, 1))
        j1    == AND(SHR(lower, 13), X(0, 1))
        j2    == AND(SHR(lower, 11), X(0, 1))
        imm10 == AND(upper, X(0, \h3FF))
        imm11 == AND(lower, X(0, \h7FF))
        imm   == OR(OR(OR(OR(imm11, SHL(imm10, 11)),
                          SHL(LNOT(XOR(j2, sign)), 21)),
                       SHL(LNOT(XOR(j1, sign)), 22)),
                    SHL(sign, 23))
    IN  ADD(addr, OR(SHL(imm, 1), IF sign # ZERO THEN X(\hFF00, 0) ELSE ZERO))

\* case R_ARM_THM_CALL of decode_rel_target
decode_thm_call(data0, addr) ==
    LET data  == THUMB_SHUFFLE(data0)
        upper == SHR(data, 16)
        lower == AND(data, X(0, \hFFFF))
        sign  == AND(SHR(upper, 10), X(0, 1))
        j1    == AND(SHR(lower, 13), X(0, 1))
        j2    == AND(SHR(lower, 11), X(0, 1))
        imm10 == AND(upper, X(0, \h3FF))
        imm11 == AND(lower, X(0, \h7FF))
        imm   == OR(OR(OR(OR(imm11, SHL(imm10, 11)),
                          SHL(LNOT(XOR(j2, sign)), 21)),
                       SHL(LNOT(XOR(j1, sign)), 22)),
                    SHL(sign, 23))
    IN  ADD(addr, OR(SHL(imm, 1), IF sign # ZERO THEN X(\hFF00, 0) ELSE ZERO))

decode_arm_branch(data, addr) ==
    SHR(SHL(ADD(SHL(AND(data, X(\h00FF, \hFFFF)), 2), addr), 8), 8)

decode_movw(data) ==
    OR(SHR(AND(data, X(\hF, 0)), 4), AND(data, X(0, \hFFF)))

decode_thm_movw(data0) ==
    LET data == THUMB_SHUFFLE(data0)
    IN  OR(OR(OR(SHL(AND(SHR(data, 16), X(0, \hF)), 12),
                 SHL(AND(SHR(data, 26), X(0, 1)), 11)),
              SHL(AND(SHR(data, 12), X(0, 7)), 8)),
           AND(data, X(0, \hFF)))

decode_thm_movt(data0) ==
    LET data == THUMB_SHUFFLE(data0)
    IN  OR(OR(OR(SHL(AND(SHR(data, 16), X(0, \hF)), 28),
                 SHL(AND(SHR(data, 26), X(0, 1)), 27)),
              SHL(AND(SHR(data, 12), X(0, 7)), 24)),
           SHL(AND(data, X(0, \hFF)), 16))

decode_rel_target(data, type, addr) ==
    CASE type \in {"R_ARM_NONE", "R_ARM_V4BX"} -> X(\hDEAD, \hBEEF)
      [] type \in {"R_ARM_ABS32", "R_ARM_TARGET1"} -> data
      [] type \in {"R_ARM_REL32", "R_ARM_TARGET2"} -> ADD(data, addr)
      [] type = "R_ARM_PREL31" -> ADD(data, addr)
      [] type = "R_ARM_THM_CALL" -> decode_thm_call(data, addr)
      [] type \in {"R_ARM_CALL", "R_ARM_JUMP24"} -> decode_arm_branch(data, addr)
      [] type = "R_ARM_MOVW_ABS_NC" -> decode_movw(data)
      [] type = "R_ARM_MOVT_ABS" -> SHL(decode_movw(data), 16)
      [] type = "R_ARM_THM_MOVW_ABS_NC" -> decode_thm_movw(data)
      [] type = "R_ARM_THM_MOVT_ABS" -> decode_thm_movt(data)
      [] OTHER -> "errx"

REL_HANDLE_NORMAL == 0
REL_HANDLE_IGNORE == -1
REL_HANDLE_INVALID == -2

get_rel_handling(type) ==
    CASE type \in {"R_ARM_NONE", "R_ARM_V4BX"} -> REL_HANDLE_IGNORE
      [] type \in {"R_ARM_ABS32", "R_ARM_TARGET1", "R_ARM_REL32", "R_ARM_TARGET2",
                   "R_ARM_PREL31", "R_ARM_THM_CALL", "R_ARM_CALL", "R_ARM_JUMP24",
                   "R_ARM_MOVW_ABS_NC", "R_ARM_MOVT_ABS", "R_ARM_THM_MOVW_ABS_NC",
                   "R_ARM_THM_MOVT_ABS"} -> REL_HANDLE_NORMAL
      [] OTHER -> REL_HANDLE_INVALID

(***************************************************************************)
(* Symbol-table loader                                                     *)
(***************************************************************************)
\* The section index libelf gives the file's k-th section (index 0 is the
\* reserved null section).
elf_ndxscn(k) == k

\* ve->num_symbols
num_symbols(ve_symtab) == IF ve_symtab = NULL THEN 0 ELSE Len(ve_symtab[1])

load_symbols(ve_symtab, ve_symtab_ndx, ndx, syms) ==
    IF ndx = ve_symtab_ndx
    THEN [ok |-> TRUE, symtab |-> ve_symtab, symtab_ndx |-> ve_symtab_ndx]
    ELSE IF ve_symtab # NULL
    THEN [ok |-> FALSE, symtab |-> ve_symtab, symtab_ndx |-> ve_symtab_ndx]
    ELSE [ok |-> TRUE, symtab |-> <<syms>>, symtab_ndx |-> ndx]

(***************************************************************************)
(* Relocation loader                                                       *)
(***************************************************************************)
\* calloc'ed vita_elf_rela_t: every field zero (type 0 is R_ARM_NONE)
ZeroRela == [type |-> "R_ARM_NONE", offset |-> ZERO, symbol |-> NULL, addend |-> ZERO]

\* le32toh(*(uint32_t *)(text_data->d_buf + (r_offset - text_shdr.sh_addr)))
insn_at(text, r_offset) ==
    LET off == SUB(r_offset, text.sh_addr)
    IN  text.d_buf[(off[2] \div 4) + 1]

\* adjusted_symbol_value without the Thumb-bit and half masks
adjusted_symbol_value_unmasked(type, value) == value

\* The value load_rel_table subtracts from the decoded target
adjusted_symbol_value(type, value) ==
    IF type \in {"R_ARM_MOVT_ABS", "R_ARM_THM_MOVT_ABS"} THEN AND(value, X(\hFFFF, 0))
    ELSE IF type \in {"R_ARM_MOVW_ABS_NC", "R_ARM_THM_MOVW_ABS_NC"} THEN AND(value, X(0, \hFFFF))
    ELSE IF type = "R_ARM_THM_CALL" THEN AND(value, X(\hFFFF, \hFFFE))
    ELSE value

\* One pass of the loop body over relas[relndx]; "failure" is the FAILX exits.
load_rel_entry(ve_symtab, text, rel, currela) ==
    LET type == IF rel.r_type = "R_ARM_THM_JUMP24" THEN "R_ARM_THM_CALL" ELSE rel.r_type
        typed == [currela EXCEPT !.type = type]
    IN  IF type = "R_ARM_THM_PC11" THEN [ok |-> TRUE, rela |-> typed]
        ELSE LET placed   == [typed EXCEPT !.offset = rel.r_offset]
                 insn     == insn_at(text, rel.r_offset)
                 handling == get_rel_handling(type)
             IN  IF handling = REL_HANDLE_IGNORE THEN [ok |-> TRUE, rela |-> placed]
                 ELSE IF handling = REL_HANDLE_INVALID THEN [ok |-> FALSE, rela |-> placed]
                 ELSE IF rel.r_sym >= num_symbols(ve_symtab) THEN [ok |-> FALSE, rela |-> placed]
                 ELSE LET symbol == ve_symtab[1][rel.r_sym + 1]
                          target == decode_rel_target(insn, type, rel.r_offset)
                      IN  [ok |-> TRUE,
                           rela |-> [placed EXCEPT
                                       !.symbol = <<rel.r_sym>>,
                                       !.addend = SUB(target, adjusted_symbol_value(type, symbol.value))]]

RECURSIVE load_rel_loop(_, _, _, _, _)
load_rel_loop(ve_symtab, text, rels, relndx, relas) ==
    IF relndx > Len(rels) THEN [ok |-> TRUE, relas |-> relas]
    ELSE LET r == load_rel_entry(ve_symtab, text, rels[relndx], relas[relndx])
         IN  IF ~r.ok THEN [ok |-> FALSE, relas |-> relas]
             ELSE load_rel_loop(ve_symtab, text, rels, relndx + 1,
                                [relas EXCEPT ![relndx] = r.rela])

\* load_rel_table(ve, scn): the new state of ve, and whether it succeeded.
load_rel_table(ve_symtab, ve_symtab_ndx, ve_rela_tables, file, shdr) ==
    LET syms == load_symbols(ve_symtab, ve_symtab_ndx, shdr.sh_link, file.syms)
    IN  IF ~syms.ok
        THEN [ok |-> FALSE, symtab |-> syms.symtab, symtab_ndx |-> syms.symtab_ndx,
              rela_tables |-> ve_rela_tables]
        ELSE LET num_relas == Len(shdr.rels)
                 loop == load_rel_loop(syms.symtab, file.text, shdr.rels, 1,
                                       [i \in 1..num_relas |-> ZeroRela])
                 rtable == [num_relas |-> num_relas, relas |-> loop.relas,
                            target_ndx |-> shdr.sh_info]
             IN  [ok |-> loop.ok, symtab |-> syms.symtab, symtab_ndx |-> syms.symtab_ndx,
                  rela_tables |-> IF loop.ok THEN <<rtable>> \o ve_rela_tables
                                  ELSE ve_rela_tables]

(***************************************************************************)
(* The state of a vita_elf_t after calloc (vita_elf_load, line 350), and   *)
(* after vita_elf_free on the failure path: no context is returned.        *)
(***************************************************************************)
NoCall == [fn |-> "none"]

\* ve->fstubs_ndx = 0, ve->fstubs = NULL, ve->num_fstubs = 0
NoStubs == [ndx |-> 0, stubs |-> <<>>]

\* No stage has ended, nothing was let go of
NoStage == [load |-> "pending", imports |-> "pending", write |-> "pending"]
NoFree == [owned |-> {}, released |-> <<>>]

InitVe ==
    /\ symtab = NULL
    /\ symtab_ndx = 0
    /\ rela_tables = <<>>
    /\ segments = <<>>
    /\ fstubs = NoStubs
    /\ vstubs = NoStubs
    /\ imports = <<>>
    /\ ret = NoCall
    /\ scn = 1
    /\ status = "running"
    /\ outfile = "none"
    /\ encoded_modinfo = NULL
    /\ stage = NoStage
    /\ freed = NoFree

NoFile == [kind |-> "none"]

(***************************************************************************)
(* Input files of the relocation loader: one symbol table, one REL section *)
(* of at most MaxRels entries and the section it patches.                  *)
(***************************************************************************)
RelTypes ==
    {"R_ARM_NONE", "R_ARM_V4BX", "R_ARM_ABS32", "R_ARM_TARGET1", "R_ARM_REL32",
     "R_ARM_TARGET2", "R_ARM_PREL31", "R_ARM_THM_CALL", "R_ARM_THM_JUMP24",
     "R_ARM_CALL", "R_ARM_JUMP24", "R_ARM_MOVW_ABS_NC", "R_ARM_MOVT_ABS",
     "R_ARM_THM_MOVW_ABS_NC", "R_ARM_THM_MOVT_ABS", "R_ARM_THM_PC11",
     "R_ARM_GOT_BREL"}

InsnWords ==
    {X(\hFFFE, \hF7FF),   \* Thumb BL, bytes FF F7 FE FF
     X(\hEB00, \h0000),   \* ARM BL, immediate 0
     X(\hEBFF, \hFFFE),   \* ARM BL, immediate -2 words
     X(\hEA80, \h0001),   \* ARM B, most negative immediate + 1
     X(\h0000, \h8000),   \* data word 0x00008000
     X(\hE30B, \h0EEF),   \* ARM MOVW #0xBEEF
     X(\hE34D, \h0EAD),   \* ARM MOVT #0xDEAD
     X(\h60EF, \hF64B),   \* Thumb MOVW #0xBEEF
     X(\h60AD, \hF6CD),   \* Thumb MOVT #0xDEAD
     X(\hFFFF, \hFFFF)}

TextAddrs == {X(\h0008, \h1000), X(\h8100, \h0000)}

SymValues == {X(\h0008, \h1001), X(\hDEAD, \hBEEF), X(\h0000, \h7000)}

RelSymbol(v) ==
    [name |-> "S", value |-> v, type |-> "STT_FUNC", binding |-> "STB_GLOBAL", shndx |-> 3]

SeqsUpTo(S, n) == UNION {[1..k -> S] : k \in 0..n}

RelEntries(sh_addr) == [r_offset : {sh_addr}, r_type : RelTypes, r_sym : {0, 1}]

RelFile(v, a, w, symfirst, rels) ==
    [kind |-> "rel",
     syms |-> <<RelSymbol(v)>>,
     text |-> [sh_addr |-> a, d_buf |-> <<w>>],
     shdrs |-> IF symfirst
               THEN <<[sh_type |-> "SHT_SYMTAB", name |-> ".symtab"],
                      [sh_type |-> "SHT_REL", name |-> ".rel.text",
                       sh_link |-> 1, sh_info |-> 3, rels |-> rels],
                      [sh_type |-> "SHT_PROGBITS", name |-> ".text"]>>
               ELSE <<[sh_type |-> "SHT_REL", name |-> ".rel.text",
                       sh_link |-> 2, sh_info |-> 3, rels |-> rels],
                      [sh_type |-> "SHT_SYMTAB", name |-> ".symtab"],
                      [sh_type |-> "SHT_PROGBITS", name |-> ".text"]>>]

InitRel ==
    /\ \E v \in SymValues, a \in TextAddrs, w \in InsnWords, symfirst \in BOOLEAN :
         \E rels \in SeqsUpTo(RelEntries(a), MaxRels) :
            elf = RelFile(v, a, w, symfirst, rels)
    /\ db_files = <<>>
    /\ pc = "sections"
    /\ InitVe

\* What the context owns: the input file and its libelf handle (opened
\* before the section loop), the context itself, every array calloc has
\* returned, every relocation table with its entry array, and the host
\* reservation of every segment that has one.  has_segments: ve->segments
\* has been allocated.
Owned(has_segments) ==
    {<<"file", "ve->file", 0>>, <<"elf", "ve->elf", 0>>, <<"heap", "ve", 0>>}
    \cup (IF fstubs.ndx # 0 THEN {<<"heap", "ve->fstubs", 0>>} ELSE {})
    \cup (IF vstubs.ndx # 0 THEN {<<"heap", "ve->vstubs", 0>>} ELSE {})
    \cup (IF symtab # NULL THEN {<<"heap", "ve->symtab", 0>>} ELSE {})
    \cup {<<"heap", "rtable", i>> : i \in 1..Len(rela_tables)}
    \cup {<<"heap", "rtable->relas", i>> : i \in 1..Len(rela_tables)}
    \cup (IF has_segments THEN {<<"heap", "ve->segments", 0>>} ELSE {})
    \cup {<<"reservation", "vaddr_top", i>> : i \in {k \in 1..Len(segments) : segments[k].vaddr_top # 0}}

\* vita_elf_free, lines 467-470: the munmap loop from segment i on
RECURSIVE munmap_segments(_, _)
munmap_segments(ve_segments, i) ==
    IF i > Len(ve_segments) THEN <<>>
    ELSE (IF ve_segments[i].vaddr_top # 0 THEN <<(<<"reservation", "vaddr_top", i>>)>> ELSE <<>>)
         \o munmap_segments(ve_segments, i + 1)

\* vita_elf_free: the resources it releases, in the order it releases them
\* (free of a NULL pointer releases nothing)
vita_elf_free(ve_segments, ve_fstubs, ve_vstubs, ve_symtab) ==
    munmap_segments(ve_segments, 1)
    \o (IF ve_fstubs.ndx # 0 THEN <<(<<"heap", "ve->fstubs", 0>>)>> ELSE <<>>)
    \o (IF ve_vstubs.ndx # 0 THEN <<(<<"heap", "ve->vstubs", 0>>)>> ELSE <<>>)
    \o (IF ve_symtab # NULL THEN <<(<<"heap", "ve->symtab", 0>>)>> ELSE <<>>)
    \o <<(<<"elf", "ve->elf", 0>>), (<<"file", "ve->file", 0>>), (<<"heap", "ve", 0>>)>>

\* vita_elf_load leaves through "failure": vita_elf_free(ve), return NULL
LoadFailed ==
    /\ pc' = "failed"
    /\ stage' = [stage EXCEPT !.load = "failed"]
    /\ freed' = [owned |-> Owned(FALSE),
                 released |-> vita_elf_free(segments, fstubs, vstubs, symtab)]
    /\ symtab' = NULL
    /\ symtab_ndx' = 0
    /\ rela_tables' = <<>>
    /\ segments' = <<>>
    /\ fstubs' = NoStubs
    /\ vstubs' = NoStubs

NextSection == IF scn = Len(elf.shdrs) THEN "scanned" ELSE "sections"

\* vita_elf_load, one pass of the section loop over a SHT_SYMTAB section
scan_symtab ==
    /\ pc = "sections"
    /\ elf.shdrs[scn].sh_type = "SHT_SYMTAB"
    /\ LET r == load_symbols(symtab, symtab_ndx, elf_ndxscn(scn), elf.syms)
       IN  IF r.ok
           THEN /\ symtab' = r.symtab
                /\ symtab_ndx' = r.symtab_ndx
                /\ pc' = NextSection
                /\ UNCHANGED <<rela_tables, segments, fstubs, vstubs, stage, freed>>
           ELSE LoadFailed
    /\ scn' = scn + 1
    /\ UNCHANGED <<elf, db_files, imports, ret, status, outfile, encoded_modinfo>>

\* vita_elf_load, one pass of the section loop over a SHT_REL section
scan_rel ==
    /\ pc = "sections"
    /\ elf.shdrs[scn].sh_type = "SHT_REL"
    /\ LET r == load_rel_table(symtab, symtab_ndx, rela_tables, elf, elf.shdrs[scn])
       IN  IF r.ok
           THEN /\ symtab' = r.symtab
                /\ symtab_ndx' = r.symtab_ndx
                /\ rela_tables' = r.rela_tables
                /\ pc' = NextSection
                /\ UNCHANGED <<segments, fstubs, vstubs, stage, freed>>
           ELSE LoadFailed
    /\ scn' = scn + 1
    /\ UNCHANGED <<elf, db_files, imports, ret, status, outfile, encoded_modinfo>>

\* vita_elf_load, one pass of the section loop over any other section
scan_other ==
    /\ pc = "sections"
    /\ elf.shdrs[scn].sh_type = "SHT_PROGBITS"
    /\ elf.shdrs[scn].name \notin {".vitalink.fstubs", ".vitalink.vstubs"}
    /\ pc' = NextSection
    /\ scn' = scn + 1
    /\ UNCHANGED <<elf, db_files, symtab, symtab_ndx, rela_tables, segments, fstubs, vstubs, imports, ret,
                   status, outfile, encoded_modinfo, stage, freed>>

NextRel == scan_symtab \/ scan_rel \/ scan_other

SpecRel == InitRel /\ [][NextRel]_vars

(***************************************************************************)
(* Claims about the relocation loader (checked under SpecRel)              *)
(***************************************************************************)
RelSection == CHOOSE h \in {elf.shdrs[k] : k \in 1..Len(elf.shdrs)} : h.sh_type = "SHT_REL"

\* The type a REL entry is stored under: R_ARM_THM_JUMP24 arrives as R_ARM_THM_CALL
StoredType(r) == IF r.r_type = "R_ARM_THM_JUMP24" THEN "R_ARM_THM_CALL" ELSE r.r_type

AcceptedTypes ==
    {"R_ARM_ABS32", "R_ARM_TARGET1", "R_ARM_REL32", "R_ARM_TARGET2", "R_ARM_PREL31",
     "R_ARM_THM_CALL", "R_ARM_CALL", "R_ARM_JUMP24", "R_ARM_MOVW_ABS_NC",
     "R_ARM_MOVT_ABS", "R_ARM_THM_MOVW_ABS_NC", "R_ARM_THM_MOVT_ABS"}

\* The entries of the loaded table that were loaded with NORMAL handling
NormalEntries ==
    IF rela_tables = <<>> THEN {}
    ELSE {i \in 1..rela_tables[1].num_relas : StoredType(RelSection.rels[i]) \in AcceptedTypes}

Loaded(i) == rela_tables[1].relas[i]
Given(i) == RelSection.rels[i]
GivenInsn(i) == insn_at(elf.text, Given(i).r_offset)
GivenSymValue(i) == elf.syms[Given(i).r_sym + 1].value

\* The adjusted symbol value as section 4.5 of the specification tabulates it
SpecAdjusted(type, value) ==
    CASE type \in {"R_ARM_MOVT_ABS", "R_ARM_THM_MOVT_ABS"} -> <<value[1], 0>>
      [] type \in {"R_ARM_MOVW_ABS_NC", "R_ARM_THM_MOVW_ABS_NC"} -> <<0, value[2]>>
      [] type = "R_ARM_THM_CALL" -> <<value[1], value[2] - (value[2] % 2)>>
      [] OTHER -> value

\* C1: every REL entry loaded with NORMAL handling stores
\* addend = decoded target - adjusted symbol value (mod 2^32), the adjustment
\* being value & 0xFFFF0000 for MOVT, value & 0xFFFF for MOVW, value & ~1 for
\* THM_CALL (THM_JUMP24 included) and value itself for every other type.
C1_AddendIsTargetMinusAdjusted ==
    \A i \in NormalEntries :
        /\ Loaded(i).type = StoredType(Given(i))
        /\ Loaded(i).symbol = <<Given(i).r_sym>>
        /\ Loaded(i).addend =
              SUB(decode_rel_target(GivenInsn(i), StoredType(Given(i)), Given(i).r_offset),
                  SpecAdjusted(StoredType(Given(i)), GivenSymValue(i)))

\* A THM_JUMP24 entry against a Thumb symbol (bit 0 set) has been loaded, and
\* so has a MOVT entry against a symbol with a non-zero low half.
C1_Witness ==
    \E i \in NormalEntries :
        /\ Given(i).r_type \in {"R_ARM_THM_JUMP24", "R_ARM_MOVT_ABS"}
        /\ GivenSymValue(i)[2] % 2 = 1

SignExtend26(x) == IF x[1] >= 2^9 THEN <<(x[1] % 2^10) + (2^16 - 2^10), x[2]>> ELSE x

SpecBranchTarget(data, offset) ==
    ADD(offset, SignExtend26(SHL(<<data[1] % 2^8, data[2]>>, 2)))

\* C2: for R_ARM_CALL and R_ARM_JUMP24 the decoded target (the stored addend
\* plus the symbol value) is offset + SignExtend26((data & 0x00FFFFFF) << 2)
\* modulo 2^32, for every instruction word and every offset.
C2_BranchTargetSignExtended ==
    \A i \in NormalEntries :
        Loaded(i).type \in {"R_ARM_CALL", "R_ARM_JUMP24"} =>
            /\ decode_rel_target(GivenInsn(i), Loaded(i).type, Loaded(i).offset)
                  = SpecBranchTarget(GivenInsn(i), Given(i).r_offset)
            /\ ADD(Loaded(i).addend, GivenSymValue(i))
                  = SpecBranchTarget(GivenInsn(i), Given(i).r_offset)

\* Scenario S1: bytes FF F7 FE FF at 0x81000, one R_ARM_THM_CALL entry at
\* 0x81000 against a symbol of value 0x81001, loaded.
S1_Loaded ==
    /\ elf.text = [sh_addr |-> X(\h0008, \h1000), d_buf |-> <<X(\hFFFE, \hF7FF)>>]
    /\ elf.syms[1].value = X(\h0008, \h1001)
    /\ RelSection.rels = <<[r_offset |-> X(\h0008, \h1000), r_type |-> "R_ARM_THM_CALL", r_sym |-> 0]>>
    /\ rela_tables # <<>>

\* C3 as stated: in scenario S1 the decoded target is 0x80FFC and the addend is -6.
C3_S1_AddendMinusSix ==
    S1_Loaded =>
        /\ ADD(Loaded(1).addend, X(\h0008, \h1000)) = X(\h0008, \h0FFC)
        /\ Loaded(1).addend = X(\hFFFF, \hFFFA)

\* C3 as amended: in scenario S1 the decoded target is 0x80FFC and the addend
\* is -4 (0x80FFC - 0x81000).
C3_S1_AddendMinusFour ==
    S1_Loaded =>
        /\ Loaded(1).type = "R_ARM_THM_CALL"
        /\ Loaded(1).offset = X(\h0008, \h1000)
        /\ Loaded(1).symbol = <<0>>
        /\ ADD(Loaded(1).addend, X(\h0008, \h1000)) = X(\h0008, \h0FFC)
        /\ Loaded(1).addend = X(\hFFFF, \hFFFC)

C3_Witness == S1_Loaded /\ pc = "scanned"

Bit(w, n) == SHR(w, n)[2] % 2

\* The inverse of each type's decode rule: the instruction word insn with its
\* relocated bit-field replaced by the encoding of target.
EncodeThmCall(insn, target, offset) ==
    LET off   == SUB(target, offset)
        S     == Bit(off, 24)
        J1    == (Bit(off, 23) + S + 1) % 2
        J2    == (Bit(off, 22) + S + 1) % 2
        imm10 == SHR(off, 12)[2] % 2^10
        imm11 == SHR(off, 1)[2] % 2^11
    IN  <<And16(insn[1], \hD000) + (J1 * 2^13) + (J2 * 2^11) + imm11,
          And16(insn[2], \hF800) + (S * 2^10) + imm10>>

EncodeArmBranch(insn, target, offset) ==
    LET imm24 == SHR(SUB(target, offset), 2)
    IN  <<And16(insn[1], \hFF00) + (imm24[1] % 2^8), imm24[2]>>

EncodeMov(insn, imm16) ==
    <<And16(insn[1], \hFFF0) + (imm16 \div 2^12), And16(insn[2], \hF000) + (imm16 % 2^12)>>

EncodeThmMov(insn, imm16) ==
    <<And16(insn[1], \h8F00) + (((imm16 \div 2^8) % 2^3) * 2^12) + (imm16 % 2^8),
      And16(insn[2], \hFBF0) + (((imm16 \div 2^11) % 2) * 2^10) + (imm16 \div 2^12)>>

Encode(type, insn, target, offset) ==
    CASE type \in {"R_ARM_ABS32", "R_ARM_TARGET1"} -> target
      [] type \in {"R_ARM_REL32", "R_ARM_TARGET2", "R_ARM_PREL31"} -> SUB(target, offset)
      [] type = "R_ARM_THM_CALL" -> EncodeThmCall(insn, target, offset)
      [] type \in {"R_ARM_CALL", "R_ARM_JUMP24"} -> EncodeArmBranch(insn, target, offset)
      [] type = "R_ARM_MOVW_ABS_NC" -> EncodeMov(insn, target[2])
      [] type = "R_ARM_MOVT_ABS" -> EncodeMov(insn, target[1])
      [] type = "R_ARM_THM_MOVW_ABS_NC" -> EncodeThmMov(insn, target[2])
      [] type = "R_ARM_THM_MOVT_ABS" -> EncodeThmMov(insn, target[1])

Reencoded(i) ==
    Encode(Loaded(i).type, GivenInsn(i),
           ADD(SpecAdjusted(Loaded(i).type, GivenSymValue(i)), Loaded(i).addend),
           Loaded(i).offset)

\* C4: for every entry loaded with NORMAL handling, re-encoding
\* adjusted_symbol_value + addend into the instruction's relocated bit-field
\* reproduces the original instruction word bit for bit.
C4_ReencodeReproducesInsn ==
    \A i \in NormalEntries : Reencoded(i) = GivenInsn(i)

\* The round trip of C4 outside R_ARM_CALL and R_ARM_JUMP24
RoundTripButArmBranch ==
    \A i \in NormalEntries :
        Loaded(i).type \notin {"R_ARM_CALL", "R_ARM_JUMP24"} => Reencoded(i) = GivenInsn(i)

(***************************************************************************)
(* Address-space mapper                                                    *)
(*                                                                         *)
(* A host pointer is an integer; NULL is 0.                                *)
(***************************************************************************)
ToInt(w) == (w[1] * Half) + w[2]

U32(n) == <<(n \div Half) % Half, n % Half>>

SHT_ARM_EXIDX == \h70000001

\* vaddr >= seg->vaddr && vaddr < seg->vaddr + seg->memsz, on Elf32_Addr
seg_contains(seg, vaddr) ==
    GE(vaddr, seg.vaddr) /\ LT(vaddr, ADD(seg.vaddr, seg.memsz))

\* host_addr >= seg->vaddr_top && host_addr < seg->vaddr_bottom
seg_contains_host(seg, host_addr) ==
    host_addr >= seg.vaddr_top /\ host_addr < seg.vaddr_bottom

RECURSIVE vaddr_to_host_loop(_, _, _)
vaddr_to_host_loop(segs, vaddr, i) ==
    IF i > Len(segs) THEN 0
    ELSE IF seg_contains(segs[i], vaddr)
    THEN segs[i].vaddr_top + ToInt(SUB(vaddr, segs[i].vaddr))
    ELSE vaddr_to_host_loop(segs, vaddr, i + 1)

vita_elf_vaddr_to_host(segs, vaddr) == vaddr_to_host_loop(segs, vaddr, 1)

RECURSIVE host_to_vaddr_loop(_, _, _)
host_to_vaddr_loop(segs, host_addr, i) ==
    IF i > Len(segs) THEN ZERO
    ELSE IF seg_contains_host(segs[i], host_addr)
    THEN ADD(segs[i].vaddr, U32(host_addr - segs[i].vaddr_top))
    ELSE host_to_vaddr_loop(segs, host_addr, i + 1)

vita_elf_host_to_vaddr(segs, host_addr) ==
    IF host_addr = 0 THEN ZERO ELSE host_to_vaddr_loop(segs, host_addr, 1)

\* Segment indices are those of the C array: the first segment is 0
RECURSIVE vaddr_to_segndx_loop(_, _, _)
vaddr_to_segndx_loop(segs, vaddr, i) ==
    IF i > Len(segs) THEN -1
    ELSE IF segs[i].type = SHT_ARM_EXIDX THEN vaddr_to_segndx_loop(segs, vaddr, i + 1)
    ELSE IF seg_contains(segs[i], vaddr) THEN i - 1
    ELSE vaddr_to_segndx_loop(segs, vaddr, i + 1)

vita_elf_vaddr_to_segndx(segs, vaddr) == vaddr_to_segndx_loop(segs, vaddr, 1)

\* vita_elf_vaddr_to_segoffset that refuses an address outside the segment
vita_elf_vaddr_to_segoffset_checked(segs, vaddr, segndx) ==
    IF vaddr = ZERO THEN ZERO
    ELSE IF ~seg_contains(segs[segndx + 1], vaddr) THEN X(\hFFFF, \hFFFF)
    ELSE SUB(vaddr, segs[segndx + 1].vaddr)

vita_elf_vaddr_to_segoffset(segs, vaddr, segndx) ==
    IF vaddr = ZERO THEN ZERO
    ELSE SUB(vaddr, segs[segndx + 1].vaddr)

\* mmap(NULL, memsz, PROT_NONE, ...): a fresh page-aligned reservation, placed
\* below the lowest one so far
PageSize == 2^12
HostTop == 2^30
Pages(memsz) == ((ToInt(memsz) + PageSize - 1) \div PageSize) * PageSize

mmap(lowest, memsz) == lowest - Pages(memsz)

\* vita_elf_load, lines 425-445: the program headers become segment records
RECURSIVE load_segments(_, _, _)
load_segments(phdrs, segs, lowest) ==
    IF Len(segs) = Len(phdrs) THEN segs
    ELSE LET phdr == phdrs[Len(segs) + 1]
             top  == mmap(lowest, phdr.p_memsz)
         IN  IF phdr.p_memsz # ZERO
             THEN load_segments(phdrs,
                      Append(segs, [type |-> phdr.p_type, vaddr |-> phdr.p_vaddr,
                                    memsz |-> phdr.p_memsz, vaddr_top |-> top,
                                    vaddr_bottom |-> top + ToInt(phdr.p_memsz)]),
                      top)
             ELSE load_segments(phdrs,
                      Append(segs, [type |-> phdr.p_type, vaddr |-> phdr.p_vaddr,
                                    memsz |-> phdr.p_memsz, vaddr_top |-> 0,
                                    vaddr_bottom |-> 0]),
                      lowest)

(***************************************************************************)
(* Stub loader and stub-symbol linker                                      *)
(***************************************************************************)
\* How many times each late binding of a stub has been assigned
NoWrites == [symbol |-> 0, library |-> 0, module |-> 0, target |-> 0]

\* load_stubs: sh_size / 16 stubs, each at sh_addr + 16 * its position, its
\* late bindings zero (calloc) and never assigned
load_stubs(shdr) ==
    [k \in 1..Len(shdr.slots) |->
        [addr |-> ADD(shdr.sh_addr, U32(16 * (k - 1))),
         library_nid |-> shdr.slots[k][1],
         module_nid |-> shdr.slots[k][2],
         target_nid |-> shdr.slots[k][3],
         symbol |-> NULL, library |-> NULL, module |-> NULL, target |-> NULL,
         nwrites |-> NoWrites]]

\* bind_stub that overwrites the binding of a stub already bound
RECURSIVE bind_stub_overwriting(_, _, _, _)
bind_stub_overwriting(stubs, symndx, value, stub) ==
    IF stub > Len(stubs) THEN [ok |-> FALSE, stubs |-> stubs]
    ELSE IF stubs[stub].addr # value THEN bind_stub_overwriting(stubs, symndx, value, stub + 1)
    ELSE [ok |-> TRUE, stubs |-> [stubs EXCEPT ![stub].symbol = <<symndx>>,
                                               ![stub].nwrites.symbol = @ + 1]]

\* lookup_stub_symbols, lines 309-321: the loop over the stubs for one symbol
RECURSIVE bind_stub(_, _, _, _)
bind_stub(stubs, symndx, value, stub) ==
    IF stub > Len(stubs) THEN [ok |-> FALSE, stubs |-> stubs]
    ELSE IF stubs[stub].addr # value THEN bind_stub(stubs, symndx, value, stub + 1)
    ELSE IF stubs[stub].symbol # NULL THEN [ok |-> FALSE, stubs |-> stubs]
    ELSE [ok |-> TRUE, stubs |-> [stubs EXCEPT ![stub].symbol = <<symndx>>,
                                               ![stub].nwrites.symbol = @ + 1]]

\* lookup_stub_symbols, from symbol symndx (an index of the C array) on
RECURSIVE lookup_stub_symbols_loop(_, _, _, _, _)
lookup_stub_symbols_loop(syms, stubs, stubs_ndx, sym_type, symndx) ==
    IF symndx >= Len(syms) THEN [ok |-> TRUE, stubs |-> stubs]
    ELSE LET cursym == syms[symndx + 1]
         IN  IF \/ cursym.binding # "STB_GLOBAL"
                \/ cursym.type \notin {"STT_FUNC", "STT_OBJECT"}
                \/ cursym.shndx # stubs_ndx
             THEN lookup_stub_symbols_loop(syms, stubs, stubs_ndx, sym_type, symndx + 1)
             ELSE IF cursym.type # sym_type THEN [ok |-> FALSE, stubs |-> stubs]
             ELSE LET b == bind_stub(stubs, symndx, cursym.value, 1)
                  IN  IF ~b.ok THEN [ok |-> FALSE, stubs |-> stubs]
                      ELSE lookup_stub_symbols_loop(syms, b.stubs, stubs_ndx, sym_type, symndx + 1)

lookup_stub_symbols(ve_symtab, stubs, stubs_ndx, sym_type) ==
    lookup_stub_symbols_loop(IF ve_symtab = NULL THEN <<>> ELSE ve_symtab[1],
                             stubs, stubs_ndx, sym_type, 0)

\* vita_elf_load, one pass of the section loop over .vitalink.fstubs
scan_fstubs ==
    /\ pc = "sections"
    /\ elf.shdrs[scn].sh_type = "SHT_PROGBITS"
    /\ elf.shdrs[scn].name = ".vitalink.fstubs"
    /\ IF fstubs.ndx # 0 THEN LoadFailed
       ELSE /\ fstubs' = [ndx |-> elf_ndxscn(scn), stubs |-> load_stubs(elf.shdrs[scn])]
            /\ pc' = NextSection
            /\ UNCHANGED <<symtab, symtab_ndx, rela_tables, segments, vstubs, stage, freed>>
    /\ scn' = scn + 1
    /\ UNCHANGED <<elf, db_files, imports, ret, status, outfile, encoded_modinfo>>

\* vita_elf_load, one pass of the section loop over .vitalink.vstubs
scan_vstubs ==
    /\ pc = "sections"
    /\ elf.shdrs[scn].sh_type = "SHT_PROGBITS"
    /\ elf.shdrs[scn].name = ".vitalink.vstubs"
    /\ IF vstubs.ndx # 0 THEN LoadFailed
       ELSE /\ vstubs' = [ndx |-> elf_ndxscn(scn), stubs |-> load_stubs(elf.shdrs[scn])]
            /\ pc' = NextSection
            /\ UNCHANGED <<symtab, symtab_ndx, rela_tables, segments, fstubs, stage, freed>>
    /\ scn' = scn + 1
    /\ UNCHANGED <<elf, db_files, imports, ret, status, outfile, encoded_modinfo>>

\* vita_elf_load after the section loop, lines 408-447: the three checks, the
\* stub-symbol linker on each stub section present, the program headers
finish_load ==
    /\ pc = "scanned"
    /\ LET f == IF fstubs.ndx # 0
                THEN lookup_stub_symbols(symtab, fstubs.stubs, fstubs.ndx, "STT_FUNC")
                ELSE [ok |-> TRUE, stubs |-> fstubs.stubs]
           v == IF vstubs.ndx # 0
                THEN lookup_stub_symbols(symtab, vstubs.stubs, vstubs.ndx, "STT_OBJECT")
                ELSE [ok |-> TRUE, stubs |-> vstubs.stubs]
       IN  IF \/ (fstubs.ndx = 0 /\ vstubs.ndx = 0)
              \/ symtab = NULL
              \/ rela_tables = <<>>
              \/ ~f.ok
              \/ ~v.ok
           THEN LoadFailed
           ELSE /\ fstubs' = [fstubs EXCEPT !.stubs = f.stubs]
                /\ vstubs' = [vstubs EXCEPT !.stubs = v.stubs]
                /\ segments' = load_segments(elf.phdrs, <<>>, HostTop)
                /\ pc' = "loaded"
                /\ stage' = [stage EXCEPT !.load = "ok"]
                /\ UNCHANGED <<symtab, symtab_ndx, rela_tables, freed>>
    /\ UNCHANGED <<elf, db_files, imports, ret, scn, status, outfile, encoded_modinfo>>

(***************************************************************************)
(* Input files of the mapper: program header tables of at most MaxSegs     *)
(* entries, among them the segments of scenario S4, segments that reach or *)
(* pass the top of the 32-bit address space, and an empty segment.         *)
(***************************************************************************)
Phdrs ==
    {[p_type |-> 1, p_vaddr |-> X(\h8000, 0), p_memsz |-> X(1, 0)],              \* PT_LOAD
     [p_type |-> 1, p_vaddr |-> X(\h8100, 0), p_memsz |-> X(0, \h1000)],         \* PT_LOAD
     [p_type |-> \h70000001, p_vaddr |-> X(\h8000, 0), p_memsz |-> X(0, \h200)], \* PT_ARM_EXIDX
     [p_type |-> 1, p_vaddr |-> X(\hFFFF, \hF000), p_memsz |-> X(0, \h1000)],    \* ends at 2^32
     [p_type |-> 1, p_vaddr |-> X(\hFFFF, \hF000), p_memsz |-> X(0, \h2000)],    \* passes 2^32
     [p_type |-> 1, p_vaddr |-> X(\h8000, 0), p_memsz |-> ZERO]}                 \* empty

GuestAddrs ==
    {ZERO, X(0, \h800), X(\h8000, 0), X(\h8000, \h100), X(\h8000, \h200),
     X(\h8001, 0), X(\h8100, \hFFF), X(\hFFFF, \hF800), X(\hFFFF, \hFFFF)}

\* A file with an empty function-stub section, an empty symbol table and an
\* empty REL section, under the program header table phdrs
MapFile(phdrs) ==
    [kind |-> "map",
     syms |-> <<>>,
     text |-> [sh_addr |-> X(\h8000, 0), d_buf |-> <<>>],
     shdrs |-> <<[sh_type |-> "SHT_PROGBITS", name |-> ".vitalink.fstubs",
                  sh_addr |-> X(\h8000, \h8000), slots |-> <<>>],
                 [sh_type |-> "SHT_SYMTAB", name |-> ".symtab"],
                 [sh_type |-> "SHT_REL", name |-> ".rel.text",
                  sh_link |-> 2, sh_info |-> 4, rels |-> <<>>],
                 [sh_type |-> "SHT_PROGBITS", name |-> ".text"]>>,
     phdrs |-> phdrs]

InitMap ==
    /\ \E phdrs \in SeqsUpTo(Phdrs, MaxSegs) : elf = MapFile(phdrs)
    /\ db_files = <<>>
    /\ pc = "sections"
    /\ InitVe

\* The mapper's functions take a const vita_elf_t and change nothing, so the
\* order of the queries is immaterial: a behaviour follows one query and, for
\* a host pointer it returned, the translation of that pointer back.
Called(r) ==
    /\ ret' = r
    /\ pc' = "returned"
    /\ UNCHANGED <<elf, db_files, symtab, symtab_ndx, rela_tables, segments, fstubs, vstubs, imports, scn,
                   status, outfile, encoded_modinfo, stage, freed>>

call_vaddr_to_host ==
    /\ pc = "loaded"
    /\ \E a \in GuestAddrs :
        Called([fn |-> "vita_elf_vaddr_to_host", vaddr |-> a,
                val |-> vita_elf_vaddr_to_host(segments, a)])

\* called on NULL or on the host pointer the last vita_elf_vaddr_to_host returned
call_host_to_vaddr ==
    /\ pc = "loaded" \/ (pc = "returned" /\ ret.fn = "vita_elf_vaddr_to_host")
    /\ \E p \in {0} \cup (IF ret.fn = "vita_elf_vaddr_to_host" THEN {ret.val} ELSE {}) :
        Called([fn |-> "vita_elf_host_to_vaddr", host |-> p,
                \* the guest address p was obtained for, if any
                of |-> IF ret.fn = "vita_elf_vaddr_to_host" /\ p = ret.val
                       THEN <<ret.vaddr>> ELSE <<>>,
                val |-> vita_elf_host_to_vaddr(segments, p)])

call_vaddr_to_segndx ==
    /\ pc = "loaded"
    /\ \E a \in GuestAddrs :
        Called([fn |-> "vita_elf_vaddr_to_segndx", vaddr |-> a,
                val |-> vita_elf_vaddr_to_segndx(segments, a)])

call_vaddr_to_segoffset ==
    /\ pc = "loaded"
    /\ \E a \in GuestAddrs, i \in 0..(Len(segments) - 1) :
        Called([fn |-> "vita_elf_vaddr_to_segoffset", vaddr |-> a, segndx |-> i,
                val |-> vita_elf_vaddr_to_segoffset(segments, a, i)])

NextMap ==
    \/ scan_fstubs
    \/ scan_symtab
    \/ scan_rel
    \/ scan_other
    \/ finish_load
    \/ call_vaddr_to_host
    \/ call_host_to_vaddr
    \/ call_vaddr_to_segndx
    \/ call_vaddr_to_segoffset

SpecMap == InitMap /\ [][NextMap]_vars

(***************************************************************************)
(* Claims about the address-space mapper (checked under SpecMap)           *)
(***************************************************************************)
\* a lies in the half-open guest range [s.vaddr, s.vaddr + s.memsz), the sum
\* taken in the integers
InGuestRange(s, a) == GE(a, s.vaddr) /\ LT(SUB(a, s.vaddr), s.memsz)

SegIndices == 1..Len(segments)

\* The host placeholder ranges of distinct segments are disjoint
HostRangesDisjoint ==
    \A i, j \in SegIndices :
        i # j => \/ segments[i].vaddr_bottom <= segments[j].vaddr_top
                 \/ segments[j].vaddr_bottom <= segments[i].vaddr_top

\* C5: for every segment s and every guest address a in [s.vaddr, s.vaddr +
\* s.memsz), vita_elf_host_to_vaddr(vita_elf_vaddr_to_host(a)) = a, overlapping
\* guest ranges included, the host ranges being disjoint.
C5_HostRoundTrip ==
    (/\ ret.fn = "vita_elf_host_to_vaddr"
     /\ ret.of # <<>>
     /\ HostRangesDisjoint
     /\ \E i \in SegIndices : InGuestRange(segments[i], ret.of[1]))
    => ret.val = ret.of[1]

\* No segment reaches or passes the top of the 32-bit address space
NoSegmentReachesTop ==
    \A i \in SegIndices :
        segments[i].memsz = ZERO \/ LT(segments[i].vaddr, ADD(segments[i].vaddr, segments[i].memsz))

\* The round trip of C5 when no segment's upper bound wraps
RoundTripBelowTop == NoSegmentReachesTop => C5_HostRoundTrip

\* C6: vita_elf_vaddr_to_host(a) is nil exactly when no segment's half-open
\* guest range contains a, segments that reach or pass 2^32 and empty
\* segments included.
C6_HostNilIffUncontained ==
    ret.fn = "vita_elf_vaddr_to_host" =>
        (ret.val = 0 <=> ~\E i \in SegIndices : InGuestRange(segments[i], ret.vaddr))

NilIffUncontainedBelowTop == NoSegmentReachesTop => C6_HostNilIffUncontained

\* The segments C7 chooses among: not EXIDX, guest range containing a
Routable(a) ==
    {i \in SegIndices : segments[i].type # \h70000001 /\ InGuestRange(segments[i], a)}

Lowest(S) == CHOOSE i \in S : \A j \in S : i <= j

\* C7: vita_elf_vaddr_to_segndx(a) is the lowest index of a segment that is
\* not EXIDX and whose guest range contains a, and -1 when there is none.
C7_SegndxLowestNonExidx ==
    ret.fn = "vita_elf_vaddr_to_segndx" =>
        ret.val = IF Routable(ret.vaddr) = {} THEN -1 ELSE Lowest(Routable(ret.vaddr)) - 1

SegndxBelowTop == NoSegmentReachesTop => C7_SegndxLowestNonExidx

\* Scenario S4: 0x80000100 resolves to the LOAD segment at 0x80000000 and never
\* to the EXIDX segment, whatever their order
S4_ResolvesToLoad ==
    (/\ ret.fn = "vita_elf_vaddr_to_segndx"
     /\ ret.vaddr = X(\h8000, \h100)
     /\ \E i \in SegIndices : segments[i].type = 1 /\ segments[i].memsz = X(1, 0))
    => /\ ret.val >= 0
       /\ segments[ret.val + 1].type = 1
       /\ segments[ret.val + 1].vaddr = X(\h8000, 0)

\* C8 as stated: vita_elf_vaddr_to_segoffset(a, i) is a - segments[i].vaddr
\* (mod 2^32) for every a and i, no input being special.
C8_SegoffsetRawSubtraction ==
    ret.fn = "vita_elf_vaddr_to_segoffset" =>
        ret.val = SUB(ret.vaddr, segments[ret.segndx + 1].vaddr)

\* C8 as amended: vita_elf_vaddr_to_segoffset(a, i) is 0 when a = 0 and
\* a - segments[i].vaddr (mod 2^32) otherwise, with no containment check.
C8_SegoffsetRawUnlessZero ==
    ret.fn = "vita_elf_vaddr_to_segoffset" =>
        ret.val = IF ret.vaddr = ZERO THEN ZERO
                  ELSE SUB(ret.vaddr, segments[ret.segndx + 1].vaddr)

\* The offset of an address below its segment has been asked for, and it
\* came back as the wrapped difference.
C8_Witness ==
    /\ ret.fn = "vita_elf_vaddr_to_segoffset"
    /\ ret.vaddr # ZERO
    /\ LT(ret.vaddr, segments[ret.segndx + 1].vaddr)
    /\ ret.val = SUB(ret.vaddr, segments[ret.segndx + 1].vaddr)

(***************************************************************************)
(* Import databases.  An import database holds libraries, a library holds  *)
(* modules, a module holds the NIDs of its functions and of its variables. *)
(* A record of a loaded database is pointed at by a one-element tuple that *)
(* carries the record and the database that owns it.                       *)
(***************************************************************************)
vita_imports_find_lib(import, nid) ==
    IF \E l \in import.libs : l.nid = nid
    THEN <<[owner |-> import.id, lib |-> CHOOSE l \in import.libs : l.nid = nid]>>
    ELSE NULL

vita_imports_find_module(library, nid) ==
    IF \E m \in library[1].lib.modules : m.nid = nid
    THEN <<[owner |-> library[1].owner, lib |-> library[1].lib.nid,
            mod |-> CHOOSE m \in library[1].lib.modules : m.nid = nid]>>
    ELSE NULL

vita_imports_find_function(module, nid) ==
    IF nid \in module[1].mod.functions
    THEN <<[owner |-> module[1].owner, lib |-> module[1].lib, mod |-> module[1].mod.nid,
            function |-> nid]>>
    ELSE NULL

vita_imports_find_variable(module, nid) ==
    IF nid \in module[1].mod.variables
    THEN <<[owner |-> module[1].owner, lib |-> module[1].lib, mod |-> module[1].mod.nid,
            variable |-> nid]>>
    ELSE NULL

(***************************************************************************)
(* Import resolver                                                         *)
(***************************************************************************)
\* The loop over the databases without its break
RECURSIVE find_library_no_break(_, _, _)
find_library_no_break(stub, ve_imports, j) ==
    IF j > Len(ve_imports) THEN stub
    ELSE find_library_no_break(
             [stub EXCEPT !.library = vita_imports_find_lib(ve_imports[j], stub.library_nid),
                          !.nwrites.library = @ + 1],
             ve_imports, j + 1)

\* lookup_stubs, lines 493-498: the loop over the databases, from database j
\* on; every pass assigns stub->library
RECURSIVE find_library(_, _, _)
find_library(stub, ve_imports, j) ==
    IF j > Len(ve_imports) THEN stub
    ELSE LET found == [stub EXCEPT
                         !.library = vita_imports_find_lib(ve_imports[j], stub.library_nid),
                         !.nwrites.library = @ + 1]
         IN  IF found.library # NULL THEN found
             ELSE find_library(found, ve_imports, j + 1)

\* lookup_stubs, lines 491-523: one pass of the loop over the stubs
lookup_stub(stub, ve_imports, stub_type_name) ==
    LET in_library == find_library(stub, ve_imports, 1)
        in_module == [in_library EXCEPT
                        !.module = vita_imports_find_module(in_library.library, stub.module_nid),
                        !.nwrites.module = @ + 1]
        in_target == [in_module EXCEPT
                        !.target = IF stub_type_name = "function"
                                   THEN vita_imports_find_function(in_module.module, stub.target_nid)
                                   ELSE vita_imports_find_variable(in_module.module, stub.target_nid),
                        !.nwrites.target = @ + 1]
    IN  IF in_library.library = NULL THEN [found |-> FALSE, stub |-> in_library]
        ELSE IF in_module.module = NULL THEN [found |-> FALSE, stub |-> in_module]
        ELSE [found |-> in_target.target # NULL, stub |-> in_target]

\* lookup_stubs that returns at the first stub it cannot resolve
RECURSIVE lookup_stubs_aborting(_, _, _, _, _)
lookup_stubs_aborting(stubs, ve_imports, stub_type_name, i, found_all) ==
    IF i > Len(stubs) THEN [found_all |-> found_all, stubs |-> stubs]
    ELSE LET r == lookup_stub(stubs[i], ve_imports, stub_type_name)
         IN  IF ~r.found THEN [found_all |-> FALSE, stubs |-> [stubs EXCEPT ![i] = r.stub]]
             ELSE lookup_stubs_aborting([stubs EXCEPT ![i] = r.stub], ve_imports,
                                        stub_type_name, i + 1, found_all)

\* lookup_stubs, from stub i on
RECURSIVE lookup_stubs(_, _, _, _, _)
lookup_stubs(stubs, ve_imports, stub_type_name, i, found_all) ==
    IF i > Len(stubs) THEN [found_all |-> found_all, stubs |-> stubs]
    ELSE LET r == lookup_stub(stubs[i], ve_imports, stub_type_name)
         IN  lookup_stubs([stubs EXCEPT ![i] = r.stub], ve_imports, stub_type_name,
                          i + 1, found_all /\ r.found)

\* main, lines 216-217: load_imports runs vita_imports_load on each database
\* file, in the order given; every loaded database is an object of its own.
\* When one of them cannot be loaded main returns EXIT_FAILURE at once.
load_imports ==
    /\ pc = "loaded"
    /\ elf.kind = "stubs"
    /\ \E loaded \in BOOLEAN :
          IF loaded
          THEN /\ imports' = [j \in 1..Len(db_files) |-> [id |-> j, libs |-> db_files[j]]]
               /\ stage' = [stage EXCEPT !.imports = "ok"]
               /\ pc' = "imported"
               /\ UNCHANGED <<status, freed>>
          ELSE /\ stage' = [stage EXCEPT !.imports = "failed"]
               /\ status' = "EXIT_FAILURE"
               /\ freed' = [owned |-> Owned(TRUE), released |-> <<>>]
               /\ pc' = "exited"
               /\ UNCHANGED imports
    /\ UNCHANGED <<elf, db_files, symtab, symtab_ndx, rela_tables, segments, fstubs, vstubs, ret, scn,
                   outfile, encoded_modinfo>>

vita_elf_lookup_imports ==
    /\ pc = "imported"
    /\ LET f == lookup_stubs(fstubs.stubs, imports, "function", 1, TRUE)
           v == lookup_stubs(vstubs.stubs, imports, "variable", 1, TRUE)
       IN  /\ fstubs' = [fstubs EXCEPT !.stubs = f.stubs]
           /\ vstubs' = [vstubs EXCEPT !.stubs = v.stubs]
           /\ ret' = [fn |-> "vita_elf_lookup_imports", val |-> (f.found_all /\ v.found_all)]
    /\ pc' = "resolved"
    /\ UNCHANGED <<elf, db_files, symtab, symtab_ndx, rela_tables, segments, imports, scn,
                   status, outfile, encoded_modinfo, stage, freed>>

(***************************************************************************)
(* Input files of the stub linker and the import resolver.  Section 1 is   *)
(* .vitalink.fstubs or .data, section 2 is .vitalink.vstubs, a second      *)
(* .vitalink.fstubs or .data, then .text, the symbol table and one empty   *)
(* REL section.                                                            *)
(***************************************************************************)
FStubsAddr == X(\h8100, \h0000)
VStubsAddr == X(\h8100, \h1000)

StubSymbols ==
    {[name |-> "f0", value |-> FStubsAddr, type |-> "STT_FUNC", binding |-> "STB_GLOBAL", shndx |-> 1],
     [name |-> "f1", value |-> X(\h8100, \h0010), type |-> "STT_FUNC", binding |-> "STB_GLOBAL", shndx |-> 1],
     [name |-> "fmid", value |-> X(\h8100, \h0004), type |-> "STT_FUNC", binding |-> "STB_GLOBAL", shndx |-> 1],
     [name |-> "fobj", value |-> FStubsAddr, type |-> "STT_OBJECT", binding |-> "STB_GLOBAL", shndx |-> 1],
     [name |-> "v0", value |-> VStubsAddr, type |-> "STT_OBJECT", binding |-> "STB_GLOBAL", shndx |-> 2],
     [name |-> "vfun", value |-> VStubsAddr, type |-> "STT_FUNC", binding |-> "STB_GLOBAL", shndx |-> 2],
     [name |-> "local", value |-> FStubsAddr, type |-> "STT_FUNC", binding |-> "STB_LOCAL", shndx |-> 1],
     [name |-> "notype", value |-> FStubsAddr, type |-> "STT_NOTYPE", binding |-> "STB_GLOBAL", shndx |-> 1],
     [name |-> "main", value |-> FStubsAddr, type |-> "STT_FUNC", binding |-> "STB_GLOBAL", shndx |-> 3]}

\* The (library NID, module NID, target NID) words of a stub slot
FStubSlots == {<<1, 1, 1>>, <<2, 1, 1>>, <<1, 1, 2>>}
VStubSlots == {<<1, 1, 1>>, <<2, 1, 1>>}

LibFull(n) == [nid |-> n, modules |-> {[nid |-> 1, functions |-> {1}, variables |-> {1}]}]

Databases ==
    {{LibFull(1)},
     {[nid |-> 1, modules |-> {}]},
     {LibFull(2), [nid |-> 1, modules |-> {[nid |-> 1, functions |-> {2}, variables |-> {}]}]},
     {}}

StubFile(name1, slots1, name2, slots2, syms) ==
    [kind |-> "stubs",
     syms |-> syms,
     text |-> [sh_addr |-> X(\h8000, 0), d_buf |-> <<>>],
     shdrs |-> <<[sh_type |-> "SHT_PROGBITS", name |-> name1, sh_addr |-> FStubsAddr,
                  slots |-> slots1],
                 [sh_type |-> "SHT_PROGBITS", name |-> name2, sh_addr |-> VStubsAddr,
                  slots |-> slots2],
                 [sh_type |-> "SHT_PROGBITS", name |-> ".text"],
                 [sh_type |-> "SHT_SYMTAB", name |-> ".symtab"],
                 [sh_type |-> "SHT_REL", name |-> ".rel.text",
                  sh_link |-> 4, sh_info |-> 3, rels |-> <<>>]>>,
     phdrs |-> <<[p_type |-> 1, p_vaddr |-> X(\h8100, 0), p_memsz |-> X(0, \h2000)]>>]

Slots(n) == [k \in 1..n |-> <<1, 1, 1>>]

\* Files that vary in their symbols, and files that vary in their stubs and
\* in the databases they are resolved against
InitStubs ==
    /\ \/ /\ \E name1 \in {".vitalink.fstubs", ".data"},
                name2 \in {".vitalink.vstubs", ".vitalink.fstubs", ".data"},
                n1 \in 1..MaxStubs, n2 \in 1..MaxStubs, syms \in SeqsUpTo(StubSymbols, MaxSyms) :
                elf = StubFile(name1, Slots(n1), name2, Slots(n2), syms)
          /\ db_files = <<{LibFull(1)}>>
       \/ /\ \E slots1 \in SeqsUpTo(FStubSlots, MaxStubs), slots2 \in SeqsUpTo(VStubSlots, MaxStubs) :
                elf = StubFile(".vitalink.fstubs", slots1, ".vitalink.vstubs", slots2, <<>>)
          /\ db_files \in SeqsUpTo(Databases, MaxDbs)
    /\ pc = "sections"
    /\ InitVe

NextStubs ==
    \/ scan_fstubs
    \/ scan_vstubs
    \/ scan_symtab
    \/ scan_rel
    \/ scan_other
    \/ finish_load
    \/ load_imports
    \/ vita_elf_lookup_imports

SpecStubs == InitStubs /\ [][NextStubs]_vars

(***************************************************************************)
(* Stub linker: claims                                                     *)
(***************************************************************************)
StubsLinked == elf.kind = "stubs" /\ pc \in {"loaded", "imported", "resolved"}

\* The symbols (positions in the file's symbol table) the linker must bind in
\* the stub section of index ndx
StubSyms(ndx) ==
    {k \in 1..Len(elf.syms) :
        /\ elf.syms[k].binding = "STB_GLOBAL"
        /\ elf.syms[k].type \in {"STT_FUNC", "STT_OBJECT"}
        /\ elf.syms[k].shndx = ndx}

BoundTo(sec, k) == {i \in 1..Len(sec.stubs) : sec.stubs[i].symbol = <<k - 1>>}

LinkedSection(sec) ==
    /\ \A k \in StubSyms(sec.ndx) :
          /\ Cardinality(BoundTo(sec, k)) = 1
          /\ \A i \in BoundTo(sec, k) : sec.stubs[i].addr = elf.syms[k].value
    /\ \A i \in 1..Len(sec.stubs) :
          sec.stubs[i].symbol = NULL \/ \E k \in StubSyms(sec.ndx) : i \in BoundTo(sec, k)

Offending(sec, sym_type) ==
    \E k \in StubSyms(sec.ndx) :
        \/ elf.syms[k].type # sym_type
        \/ ~ \E i \in 1..Len(sec.stubs) : sec.stubs[i].addr = elf.syms[k].value
        \/ \E e \in StubSyms(sec.ndx) : e < k /\ elf.syms[e].value = elf.syms[k].value

\* C9: when the load has succeeded, in each stub section present every GLOBAL
\* FUNC/OBJECT symbol of that section is bound to exactly one stub, the one at
\* the symbol's value, no stub is shared by two symbols, and the section has
\* no symbol of the wrong type, none that points at no stub and none that
\* points at a stub an earlier symbol points at (with such a symbol the load
\* returns no context).
C9_StubSymbolsBoundOnce ==
    StubsLinked =>
        /\ fstubs.ndx # 0 => LinkedSection(fstubs) /\ ~Offending(fstubs, "STT_FUNC")
        /\ vstubs.ndx # 0 => LinkedSection(vstubs) /\ ~Offending(vstubs, "STT_OBJECT")

C9_Witness ==
    /\ StubsLinked
    /\ pc = "loaded"
    /\ fstubs.ndx # 0 /\ vstubs.ndx # 0
    /\ \E i \in 1..Len(fstubs.stubs) : fstubs.stubs[i].symbol # NULL
    /\ \E i \in 1..Len(vstubs.stubs) : vstubs.stubs[i].symbol # NULL

\* The file's sections are those a successful load needs, both stub sections
\* are present and one of them has an offending symbol: the load has failed.
LinkFailureReached ==
    /\ elf.kind = "stubs"
    /\ elf.shdrs[1].name = ".vitalink.fstubs" /\ elf.shdrs[2].name = ".vitalink.vstubs"
    /\ pc = "failed"
    /\ scn > Len(elf.shdrs)

(***************************************************************************)
(* Import resolver: claims                                                 *)
(***************************************************************************)
HasLib(j, nid) == \E l \in imports[j].libs : l.nid = nid

ExpectLibrary(stub) ==
    LET S == {j \in 1..Len(imports) : HasLib(j, stub.library_nid)}
    IN  IF S = {} THEN NULL
        ELSE <<[owner |-> Lowest(S),
                lib |-> CHOOSE l \in imports[Lowest(S)].libs : l.nid = stub.library_nid]>>

ExpectModule(stub) ==
    IF ExpectLibrary(stub) = NULL THEN NULL
    ELSE vita_imports_find_module(ExpectLibrary(stub), stub.module_nid)

ExpectTarget(stub, stub_type_name) ==
    IF ExpectModule(stub) = NULL THEN NULL
    ELSE IF stub_type_name = "function"
    THEN vita_imports_find_function(ExpectModule(stub), stub.target_nid)
    ELSE vita_imports_find_variable(ExpectModule(stub), stub.target_nid)

ResolvedAsExpected(stub, stub_type_name) ==
    /\ stub.library = ExpectLibrary(stub)
    /\ stub.module = ExpectModule(stub)
    /\ stub.target = ExpectTarget(stub, stub_type_name)

FullyBound(stub) == stub.library # NULL /\ stub.module # NULL /\ stub.target # NULL

\* C10: after vita_elf_lookup_imports every function stub and every variable
\* stub, whatever happened to the stubs before it, has its library bound from
\* the first database in load order that has the library NID, its module and
\* target looked up inside that library only, and the call returned true
\* exactly when every stub of both arrays has library, module and target
\* non-nil.
C10_BestEffortFirstDatabase ==
    pc = "resolved" =>
        /\ \A i \in 1..Len(fstubs.stubs) : ResolvedAsExpected(fstubs.stubs[i], "function")
        /\ \A i \in 1..Len(vstubs.stubs) : ResolvedAsExpected(vstubs.stubs[i], "variable")
        /\ ret.val <=> /\ \A i \in 1..Len(fstubs.stubs) : FullyBound(fstubs.stubs[i])
                       /\ \A i \in 1..Len(vstubs.stubs) : FullyBound(vstubs.stubs[i])

\* A first function stub that misses its library, a later one resolved in the
\* second database, and a variable stub resolved after both
C10_Witness ==
    /\ pc = "resolved"
    /\ Len(fstubs.stubs) = 2 /\ Len(vstubs.stubs) >= 1
    /\ fstubs.stubs[1].library = NULL
    /\ FullyBound(fstubs.stubs[2]) /\ fstubs.stubs[2].library[1].owner = 2
    /\ FullyBound(vstubs.stubs[1])
    /\ ret.val = FALSE

\* A stub whose library NID is in two databases, the first of which lacks the
\* module: the stub stays unresolved.
ShadowedLibraryReached ==
    /\ pc = "resolved"
    /\ \E i \in 1..Len(fstubs.stubs) :
          /\ fstubs.stubs[i].library # NULL
          /\ fstubs.stubs[i].module = NULL
          /\ \E j \in 1..Len(imports) :
                /\ j > fstubs.stubs[i].library[1].owner
                /\ HasLib(j, fstubs.stubs[i].library_nid)

(***************************************************************************)
(* Relocation loader: R_ARM_THM_PC11                                       *)
(***************************************************************************)
KeptEntries == {i \in 1..Len(RelSection.rels) : Given(i).r_type # "R_ARM_THM_PC11"}

\* C12: once the REL section is loaded, its R_ARM_THM_PC11 entries have left
\* no entry in the table: num_relas counts the other entries only and no
\* element of the entry array has type R_ARM_THM_PC11.
C12_ThmPc11LeavesNoEntry ==
    (elf.kind = "rel" /\ rela_tables # <<>>) =>
        /\ rela_tables[1].num_relas = Cardinality(KeptEntries)
        /\ \A i \in 1..Len(rela_tables[1].relas) : Loaded(i).type # "R_ARM_THM_PC11"

\* What the loader leaves of a R_ARM_THM_PC11 entry: a counted element that
\* has the type and is zero otherwise.
ThmPc11KeepsTypedSlot ==
    (elf.kind = "rel" /\ rela_tables # <<>>) =>
        /\ rela_tables[1].num_relas = Len(RelSection.rels)
        /\ \A i \in 1..Len(RelSection.rels) :
              Given(i).r_type = "R_ARM_THM_PC11" =>
                 Loaded(i) = [ZeroRela EXCEPT !.type = "R_ARM_THM_PC11"]

(***************************************************************************)
(* The run of the tool after the load: main of vita-elf-create             *)
(***************************************************************************)
\* main, lines 213-214: vita_elf_load returned NULL
main_load_failed ==
    /\ pc = "failed"
    /\ status' = "EXIT_FAILURE"
    /\ pc' = "exited"
    /\ UNCHANGED <<elf, db_files, symtab, symtab_ndx, rela_tables, segments, fstubs, vstubs, imports,
                   ret, scn, outfile, encoded_modinfo, stage, freed>>

\* main, lines 237-256: the encoder is handed the context and returns the
\* encoded module info, or NULL; main keeps what it returns and goes on
encode_module_info ==
    /\ pc = "resolved"
    /\ encoded_modinfo' \in {NULL, <<"modinfo">>}
    /\ pc' = "encoded"
    /\ UNCHANGED <<elf, db_files, symtab, symtab_ndx, rela_tables, segments, fstubs, vstubs, imports,
                   ret, scn, status, outfile, stage, freed>>

\* main, lines 261-273 and 287-288: elf_utils_copy_to_file opens the output
\* file, the writers fill it and fclose ends it; the first step that fails
\* takes main to "failure", which returns EXIT_FAILURE.  The writers are
\* handed encoded_modinfo as it is.
write_output ==
    /\ pc = "encoded"
    /\ \E failing \in {"elf_utils_copy_to_file", "writer", "none"} :
          /\ outfile' = CASE failing = "elf_utils_copy_to_file" -> "none"
                          [] failing = "writer" -> "open"
                          [] failing = "none" -> "written"
          /\ IF failing = "none"
             THEN /\ stage' = [stage EXCEPT !.write = "ok"]
                  /\ pc' = "written"
                  /\ UNCHANGED <<status, freed>>
             ELSE /\ stage' = [stage EXCEPT !.write = "failed"]
                  /\ status' = "EXIT_FAILURE"
                  /\ freed' = [owned |-> Owned(TRUE), released |-> <<>>]
                  /\ pc' = "exited"
    /\ UNCHANGED <<elf, db_files, symtab, symtab_ndx, rela_tables, segments, fstubs, vstubs, imports,
                   ret, scn, encoded_modinfo>>

\* main, lines 276-286: vita_elf_free(ve), the databases are freed, and main
\* returns status, which is EXIT_FAILURE when vita_elf_lookup_imports
\* returned 0
main_return ==
    /\ pc = "written"
    /\ freed' = [owned |-> Owned(TRUE),
                 released |-> vita_elf_free(segments, fstubs, vstubs, symtab)]
    /\ status' = IF ret.val THEN "EXIT_SUCCESS" ELSE "EXIT_FAILURE"
    /\ pc' = "exited"
    /\ UNCHANGED <<elf, db_files, symtab, symtab_ndx, rela_tables, segments, fstubs, vstubs, imports,
                   ret, scn, outfile, encoded_modinfo, stage>>

\* Input files of whole runs: a function stub section, then a variable stub
\* section or a second function stub section, symbols on their first slots
\* (a symbol given twice is two symbols on one slot, scenario S6), and
\* databases that have library 1 or nothing (scenario S5)
RunSymbols ==
    {sym \in StubSymbols : sym.name \in {"f0", "v0"}}

InitRun ==
    /\ \E name2 \in {".vitalink.vstubs", ".vitalink.fstubs"},
          slots1 \in SeqsUpTo({<<1, 1, 1>>, <<2, 1, 1>>}, MaxStubs) \ {<<>>},
          syms \in SeqsUpTo(RunSymbols, MaxSyms) :
          elf = StubFile(".vitalink.fstubs", slots1, name2, <<(<<1, 1, 1>>)>>, syms)
    /\ db_files \in SeqsUpTo({{LibFull(1)}, {}}, MaxDbs)
    /\ pc = "sections"
    /\ InitVe

NextRun ==
    \/ scan_fstubs
    \/ scan_vstubs
    \/ scan_symtab
    \/ scan_rel
    \/ scan_other
    \/ finish_load
    \/ main_load_failed
    \/ load_imports
    \/ vita_elf_lookup_imports
    \/ encode_module_info
    \/ write_output
    \/ main_return

SpecRun == InitRun /\ [][NextRun]_vars

(***************************************************************************)
(* Whole runs: claims                                                      *)
(***************************************************************************)
AllResolved == ret = [fn |-> "vita_elf_lookup_imports", val |-> TRUE]
SomeUnresolved == ret = [fn |-> "vita_elf_lookup_imports", val |-> FALSE]

\* C11: when the process has exited, its status is success if and only if
\* the ELF load, the database load, the encoder and the writers all succeeded
\* and every stub resolved; when the unresolved stubs are the only failure
\* the output file has been written and the status is failure; when the ELF
\* load failed the output file was never opened.
C11_ExitStatusOfRun ==
    pc = "exited" =>
        /\ status = "EXIT_SUCCESS" <=>
              /\ stage.load = "ok"
              /\ stage.imports = "ok"
              /\ encoded_modinfo # NULL
              /\ stage.write = "ok"
              /\ AllResolved
        /\ (stage.load = "ok" /\ stage.imports = "ok" /\ encoded_modinfo # NULL
              /\ stage.write = "ok" /\ SomeUnresolved)
              => (outfile = "written" /\ status = "EXIT_FAILURE")
        /\ stage.load = "failed" => outfile = "none"

\* The same without the encoder: the status is success exactly when the
\* load, the database load and the writers succeeded and every stub resolved
ExitStatusIgnoresEncoder ==
    pc = "exited" =>
        /\ status = "EXIT_SUCCESS" <=>
              (stage.load = "ok" /\ stage.imports = "ok" /\ stage.write = "ok" /\ AllResolved)
        /\ (stage.load = "ok" /\ stage.imports = "ok" /\ stage.write = "ok" /\ SomeUnresolved)
              => (outfile = "written" /\ status = "EXIT_FAILURE")
        /\ stage.load = "failed" => (outfile = "none" /\ status = "EXIT_FAILURE")

\* S5 has happened: a stub whose library is in no database, the file written
S5_Reached ==
    /\ pc = "exited" /\ SomeUnresolved /\ outfile = "written"
    /\ \E i \in 1..Len(fstubs.stubs) : fstubs.stubs[i].library = NULL

\* S6 has happened: two global FUNC symbols on the first function stub
S6_Reached ==
    /\ pc = "exited" /\ stage.load = "failed"
    /\ Len(elf.syms) = 2 /\ elf.syms[1] = elf.syms[2] /\ elf.syms[1].name = "f0"
    /\ elf.shdrs[2].name = ".vitalink.vstubs"

(***************************************************************************)
(* Release of resources: claims                                            *)
(***************************************************************************)
TimesReleased(r) == Cardinality({i \in 1..Len(freed.released) : freed.released[i] = r})

\* Host reservations first, then the ELF parser handle, then the file
\* handle, then the heap-owned tables
ReleaseRank(r) ==
    CASE r[1] = "reservation" -> 1
      [] r[1] = "elf" -> 2
      [] r[1] = "file" -> 3
      [] r[1] = "heap" -> 4

\* C13: on every exit of the process every resource the context had acquired
\* (segment reservations, the ELF parser handle, the input file handle, the
\* segment array, the symbol array, the stub arrays, every relocation table)
\* has been released exactly once, reservations before the parser handle,
\* the parser handle before the file handle, the file handle before the
\* heap-owned tables.
C13_ReleasedOnceInOrder ==
    pc = "exited" =>
        /\ \A r \in freed.owned : TimesReleased(r) = 1
        /\ \A i, j \in 1..Len(freed.released) :
              i < j => ReleaseRank(freed.released[i]) <= ReleaseRank(freed.released[j])

\* What is never released: the relocation tables, their entry arrays and the
\* segment array
NeverReleased ==
    {r \in freed.owned : r[2] \in {"rtable", "rtable->relas", "ve->segments"}}

\* What the exits do release: nothing twice and nothing the context did not
\* own; an exit through vita_elf_free releases everything but the relocation
\* tables and the segment array, the stub and symbol arrays before the parser
\* handle; the exits of main through its failure returns release nothing.
ReleasedByExits ==
    pc = "exited" =>
        /\ \A r \in freed.owned : TimesReleased(r) <= 1
        /\ \A i \in 1..Len(freed.released) : freed.released[i] \in freed.owned
        /\ \/ freed.released = <<>>
           \/ {freed.released[i] : i \in 1..Len(freed.released)} = freed.owned \ NeverReleased
        /\ freed.released = <<>> <=> (stage.imports = "failed" \/ stage.write = "failed")

\* A successful run has ended: reservations, arrays and relocation tables
\* were owned when vita_elf_free ran
FreedAfterSuccess ==
    /\ pc = "exited" /\ status = "EXIT_SUCCESS"
    /\ \E r \in freed.owned : r[1] = "reservation"
    /\ NeverReleased # {}
    /\ freed.released # <<>>

(***************************************************************************)
(* Writes of the late bindings: claims                                     *)
(***************************************************************************)
AllStubs ==
    {[sec |-> "f", stub |-> fstubs.stubs[i]] : i \in 1..Len(fstubs.stubs)}
    \cup {[sec |-> "v", stub |-> vstubs.stubs[i]] : i \in 1..Len(vstubs.stubs)}

\* C14: after the load and the import resolution every stub has had its
\* symbol, its library, its module and its target assigned exactly once.
C14_LateBindingsWrittenOnce ==
    pc = "resolved" =>
        \A s \in AllStubs :
            s.stub.nwrites = [symbol |-> 1, library |-> 1, module |-> 1, target |-> 1]

\* The symbols of the file that point at the stub
SymbolsOn(s) ==
    {k \in StubSyms(IF s.sec = "f" THEN fstubs.ndx ELSE vstubs.ndx) :
        elf.syms[k].value = s.stub.addr}

\* The databases the resolver scans for the stub: up to and with the first
\* one that has the library, all of them when none has it
DatabasesScanned(stub) ==
    LET S == {j \in 1..Len(imports) : HasLib(j, stub.library_nid)}
    IN  IF S = {} THEN Len(imports) ELSE Lowest(S)

\* C14 as the code has it: the symbol of a stub is assigned once when a
\* symbol points at the stub and never otherwise; the library is assigned
\* once for every database scanned; the module is assigned once when a
\* library was found and never otherwise; the target is assigned once when a
\* module was found and never otherwise.
C14_LateBindingsWrittenAsScanned ==
    pc = "resolved" =>
        \A s \in AllStubs :
            /\ s.stub.nwrites.symbol = Cardinality(SymbolsOn(s))
            /\ s.stub.nwrites.symbol <= 1
            /\ s.stub.nwrites.library = DatabasesScanned(s.stub)
            /\ s.stub.nwrites.module = (IF ExpectLibrary(s.stub) = NULL THEN 0 ELSE 1)
            /\ s.stub.nwrites.target = (IF ExpectModule(s.stub) = NULL THEN 0 ELSE 1)

\* A stub no symbol refers to whose library is found in the second database,
\* beside a stub whose library is found in the first of two
C14_Witness ==
    /\ pc = "resolved"
    /\ Len(imports) = 2
    /\ \E s \in AllStubs :
          /\ s.stub.symbol = NULL
          /\ s.stub.nwrites.library = 2
          /\ FullyBound(s.stub)
    /\ \E s \in AllStubs : s.stub.nwrites.library = 1 /\ s.stub.library # NULL

\* A stub a symbol refers to has had its symbol assigned once
SymbolWrittenReached ==
    /\ pc = "resolved"
    /\ \E s \in AllStubs : s.stub.symbol # NULL /\ s.stub.nwrites.symbol = 1

====
